---- MODULE Spec2Model ----
(***************************************************************************)
(* A model of scripts/detect_commented_code.py: a recursive scanner that   *)
(* flags comment lines looking like a call and fails the build when any    *)
(* is found.  Text is modelled as sequences of one-character strings.      *)
(***************************************************************************)
EXTENDS Integers, Sequences, FiniteSets, TLC

\* ------------------------------------------------------------------ bounds

\* Longest line body (without its newline) tried against the pattern.
MaxLineLen == 5
\* Most lines in a file of the single-file specification.
MaxLines == 2
\* Most files in a directory tree of the run specification.
MaxFiles == 2

\* --------------------------------------------------------------- characters

\* The class [a-zA-Z0-9_] of the pattern.
IdentChars ==
    { "a","b","c","d","e","f","g","h","i","j","k","l","m",
      "n","o","p","q","r","s","t","u","v","w","x","y","z",
      "A","B","C","D","E","F","G","H","I","J","K","L","M",
      "N","O","P","Q","R","S","T","U","V","W","X","Y","Z",
      "0","1","2","3","4","5","6","7","8","9","_" }

\* The whitespace of \s and of str.strip(): the whitespace characters that
\* can be written here; the vertical tab and the non-ASCII ones behave alike.
SpaceChars == { " ", "\t", "\n", "\r", "\f" }

IsIdent(c) == c \in IdentChars

IsSpace(c) == c \in SpaceChars

\* ------------------------------------------------------------ the pattern

\* re.compile(r'^\s*#.*[a-zA-Z0-9_]+\s*\(.*\)') as an automaton.
\*   0: in the leading \s*          1: after '#', in the first .*
\*   2: inside [a-zA-Z0-9_]+        3: in the \s* after the identifier
\*   4: after '(', in the second .* 5: after ')', the pattern is matched
\* The identifier is optional here: the '+' of the pattern read as '*'.
StepStar(S, c) ==
    { t \in 0..5 :
        \/ t = 0 /\ 0 \in S /\ IsSpace(c)
        \/ t = 1 /\ ((0 \in S /\ c = "#") \/ (1 \in S /\ c # "\n"))
        \/ t = 2 /\ (1 \in S \/ 2 \in S) /\ IsIdent(c)
        \/ t = 3 /\ (1 \in S \/ 2 \in S \/ 3 \in S) /\ IsSpace(c)
        \/ t = 4 /\ (((1 \in S \/ 2 \in S \/ 3 \in S) /\ c = "(")
                     \/ (4 \in S /\ c # "\n"))
        \/ t = 5 /\ ((4 \in S /\ c = ")") \/ 5 \in S) }

\* One character read from the set S of automaton states.  match() needs no
\* more input once the pattern is matched, so state 5 stays.
Step(S, c) ==
    { t \in 0..5 :
        \/ t = 0 /\ 0 \in S /\ IsSpace(c)
        \/ t = 1 /\ ((0 \in S /\ c = "#") \/ (1 \in S /\ c # "\n"))
        \/ t = 2 /\ (1 \in S \/ 2 \in S) /\ IsIdent(c)
        \/ t = 3 /\ (2 \in S \/ 3 \in S) /\ IsSpace(c)
        \/ t = 4 /\ (((2 \in S \/ 3 \in S) /\ c = "(") \/ (4 \in S /\ c # "\n"))
        \/ t = 5 /\ ((4 \in S /\ c = ")") \/ 5 \in S) }

RECURSIVE RunPattern(_, _, _)
RunPattern(line, i, S) ==
    IF i > Len(line) THEN S ELSE RunPattern(line, i + 1, Step(S, line[i]))

\* commented_code_pattern.match(line) is not None
PatternMatches(line) == 5 \in RunPattern(line, 1, {0})

\* ------------------------------------------------------------- scan_file

RECURSIVE LStrip(_)
LStrip(s) == IF s # <<>> /\ IsSpace(Head(s)) THEN LStrip(Tail(s)) ELSE s

RECURSIVE RStrip(_)
RStrip(s) ==
    IF s # <<>> /\ IsSpace(s[Len(s)]) THEN RStrip(SubSeq(s, 1, Len(s) - 1)) ELSE s

\* line.strip()
Strip(s) == RStrip(LStrip(s))

\* Text mode with the default newline=None: "\r\n" and a lone "\r" are read
\* as "\n".
RECURSIVE UniversalNewlines(_)
UniversalNewlines(s) ==
    IF s = <<>> THEN <<>>
    ELSE IF Head(s) = "\r"
         THEN <<"\n">> \o UniversalNewlines(
                  IF Len(s) >= 2 /\ s[2] = "\n" THEN Tail(Tail(s)) ELSE Tail(s))
         ELSE <<Head(s)>> \o UniversalNewlines(Tail(s))

RECURSIVE SplitFrom(_, _, _)
SplitFrom(text, i, cur) ==
    IF i > Len(text) THEN (IF cur = <<>> THEN <<>> ELSE <<cur>>)
    ELSE IF text[i] = "\n"
         THEN <<Append(cur, "\n")>> \o SplitFrom(text, i + 1, <<>>)
         ELSE SplitFrom(text, i + 1, Append(cur, text[i]))

\* file.readlines(): the lines of the text, each keeping its newline.
ReadLines(content) == SplitFrom(UniversalNewlines(content), 1, <<>>)

\* The loop body with the new line put in front of the ones collected.
CollectPrepend(acc, ln) ==
    IF PatternMatches(ln) THEN <<Strip(ln)>> \o acc ELSE acc

\* One pass of `for line in lines`: a matching line is appended, stripped.
Collect(acc, ln) ==
    IF PatternMatches(ln) THEN Append(acc, Strip(ln)) ELSE acc

RECURSIVE CollectFrom(_, _, _)
CollectFrom(lns, i, acc) ==
    IF i > Len(lns) THEN acc ELSE CollectFrom(lns, i + 1, Collect(acc, lns[i]))

\* commented_lines after the loop over lines.
CommentedLines(lns) == CollectFrom(lns, 1, <<>>)

\* One print() call: what is printed (kind) and the text put into it.
Printed(kind, text) == [kind |-> kind, text |-> text]

\* The prints of scan_file: a header naming the file, then each matched line;
\* nothing for a file without matched lines.
ScanFilePrints(filepath, cl) ==
    IF cl # <<>>
    THEN <<Printed("header", filepath)>> \o [i \in 1..Len(cl) |-> Printed("match", cl[i])]
    ELSE <<>>

\* The value scan_file returns.
ScanFileResult(cl) == cl # <<>>

\* The file left as it is while the exception of readlines() propagates.
WithExitNoFinally(hs, filepath, raised) ==
    IF raised THEN hs ELSE hs \ {filepath}

\* Leaving the `with` block closes the file, on return and on an exception.
WithExit(hs, filepath, raised) == hs \ {filepath}

\* Mode "w": opening truncates the file.
FileAfterOpenW(content) == <<>>

\* Mode "r": opening leaves the content of the file as it is.
FileAfterOpen(content) == content

\* --------------------------------------------------------- scan_directory

TARGET_DIR == <<"s", "r", "c">>

\* Every file name is accepted.
EndsWithAnything(name, suffix) == TRUE

\* str.endswith(suffix)
EndsWith(name, suffix) ==
    /\ Len(name) >= Len(suffix)
    /\ SubSeq(name, Len(name) - Len(suffix) + 1, Len(name)) = suffix

Suffixes == { <<".", "p", "y">>, <<".", "j", "s">>, <<".", "t", "s">> }

\* file.endswith((".py", ".js", ".ts"))
Qualifies(name) == \E sfx \in Suffixes : EndsWith(name, sfx)

\* os.path.join(root, file)
PathJoin(root, name) == root \o <<"/">> \o name

SubDir == PathJoin(TARGET_DIR, <<"s", "u", "b">>)

DirPath(d) == IF d = "top" THEN TARGET_DIR ELSE SubDir

FilePath(f) == PathJoin(DirPath(f.dir), f.name)

\* The indices of the files of directory d, in listing order.
Listing(fs, d) ==
    LET idx == { i \in 1..Len(fs) : fs[i].dir = d }
        nth[n \in 1..Cardinality(idx)] ==
            CHOOSE i \in idx : Cardinality({ j \in idx : j <= i }) = n
    IN  [n \in 1..Cardinality(idx) |-> nth[n]]

\* os.walk(directory), top down with onerror=None: a directory that cannot
\* be listed (it is missing, is no directory, or may not be read) is left
\* out without an error, and so is everything below it.
Walk(t) ==
    IF t.root # "dir" THEN <<>>
    ELSE <<[root |-> TARGET_DIR, files |-> Listing(t.files, "top")]>>
         \o (IF t.subListable
             THEN <<[root |-> SubDir, files |-> Listing(t.files, "sub")]>>
             ELSE <<>>)

\* ----------------------------------------------------------------- __main__

\* sys.exit(0)
ExitPass == 0
\* sys.exit(1)
ExitFail == 1
\* The status the interpreter ends with after an exception nobody caught.
UnhandledExitStatus == 1

\* The banner is chosen the wrong way round.
MainOutcomeSwapped(errors_found) ==
    IF errors_found THEN [banner |-> "pass", status |-> ExitPass]
    ELSE [banner |-> "fail", status |-> ExitFail]

\* `if errors_found:` the failure banner and exit(1), else the success
\* banner and exit(0).
MainOutcome(errors_found) ==
    IF errors_found THEN [banner |-> "fail", status |-> ExitFail]
    ELSE [banner |-> "pass", status |-> ExitPass]

\* The error is caught around scan_file and the file skipped.
OnExceptionSkip == [pc |-> "walk", exit |-> <<>>, skip |-> 1]

\* Nothing between open() and the interpreter catches an exception: the run
\* ends there with a traceback and the interpreter's status.
OnException == [pc |-> "aborted", exit |-> <<UnhandledExitStatus>>, skip |-> 0]

\* ------------------------------------------------------------------ state

VARIABLES
    tree,             \* the file system below the working directory
    pc,               \* where the run is
    w,                \* position in the directories os.walk yields
    k,                \* position in the files of that directory
    has_error,        \* scan_directory's flag
    handles,          \* the paths of the files held open
    lines,            \* scan_file's lines
    commented_lines,  \* scan_file's commented_lines
    out,              \* what has been printed to standard output
    exit,             \* <<>> while running, then <<status>>
    exc,              \* the exception that ended the run, "" if none
    opened,           \* the paths open() was called with, in order
    run,              \* 1 in the first run on the tree, 2 in the second
    prevOut,          \* what the first run printed
    prevExit,         \* how the first run ended
    line,             \* a line tried against the pattern
    matched           \* the outcome of that try

vars == <<tree, pc, w, k, has_error, handles, lines, commented_lines, out, exit,
          exc, opened, run, prevOut, prevExit, line, matched>>

\* ------------------------------------------------------------------ inputs

Seqs(S, n) == UNION { [1..m -> S] : m \in 0..n }

\* Line bodies: whitespace, the comment marker, an identifier character,
\* parentheses and a character of no class.
LineChars == { " ", "#", "f", "(", ")", "-" }

\* A line as readlines() gives it: a newline at its end or, for the last
\* line of a file, none.
LineInputs ==
    { body \o nl : body \in Seqs(LineChars, MaxLineLen), nl \in { <<>>, <<"\n">> } }

Names ==
    { <<"a", ".", "p", "y">>, <<"b", ".", "j", "s">>, <<"c", ".", "t", "s">>,
      <<"d", ".", "t", "x", "t">> }

CleanText == <<"f", "(", ")", "\n">>

DirtyText ==
    <<" ", "#", "f", "(", ")", "\n", "f", "(", ")", "\n", "#", "g", "(", ")">>

\* status: "ok", "noopen" (open() raises OSError) or "undecodable"
\* (readlines() raises UnicodeDecodeError).
FileKinds ==
    { [content |-> CleanText, status |-> "ok"],
      [content |-> DirtyText, status |-> "ok"],
      [content |-> DirtyText, status |-> "noopen"],
      [content |-> DirtyText, status |-> "undecodable"] }

FileRecs ==
    { [dir |-> d, name |-> n, content |-> kd.content, status |-> kd.status] :
        d \in { "top", "sub" }, n \in Names, kd \in FileKinds }

\* Listing order puts the files of the root before those of the directory
\* below it, and a directory holds no two files of one name.
WellFormed(fs) ==
    \A i, j \in 1..Len(fs) :
        i < j => /\ FilePath(fs[i]) # FilePath(fs[j])
                 /\ (fs[i].dir = "sub" => fs[j].dir = "sub")

Tree(root, sl, fs) == [root |-> root, subListable |-> sl, files |-> fs]

\* root: "dir", or "missing", or "notdir" (a file of that name).
Trees ==
    { Tree("dir", sl, fs) :
        sl \in BOOLEAN, fs \in { g \in Seqs(FileRecs, MaxFiles) : WellFormed(g) } }
    \cup { Tree("missing", TRUE, <<>>), Tree("notdir", TRUE, <<>>) }

\* The lines and line ends the files of the single-file runs are made of.
LinePool ==
    { <<>>, <<" ", "#", "f", "(", ")", " ">>, <<"f", "(", ")">>,
      <<"#", "g", " ", "(", "x", ")">> }

LineEnds == { <<"\n">>, <<"\r", "\n">>, <<"\r">> }

RECURSIVE Concat(_)
Concat(ss) == IF ss = <<>> THEN <<>> ELSE Head(ss) \o Concat(Tail(ss))

\* Up to MaxLines lines, each with a line end; the last may have none.
Contents ==
    { Concat(ps) \o last :
        ps \in Seqs({ l \o e : l \in LinePool, e \in LineEnds }, MaxLines - 1),
        last \in { <<>> } \cup { l \o e : l \in LinePool, e \in LineEnds \cup { <<>> } } }

FileTrees ==
    { Tree("dir", TRUE,
           <<[dir |-> "top", name |-> n, content |-> c, status |-> st]>>) :
        n \in { <<"a", ".", "p", "y">>, <<"d", ".", "t", "x", "t">> },
        c \in Contents, st \in { "ok", "noopen", "undecodable" } }

\* ------------------------------------------------------------------- Init

Fresh ==
    /\ pc = "start"
    /\ w = 1
    /\ k = 1
    /\ has_error = FALSE
    /\ handles = {}
    /\ lines = <<>>
    /\ commented_lines = <<>>
    /\ out = <<>>
    /\ exit = <<>>
    /\ exc = ""
    /\ opened = <<>>
    /\ run = 1
    /\ prevOut = <<>>
    /\ prevExit = <<>>

Init ==
    /\ tree \in Trees
    /\ Fresh
    /\ line = <<>>
    /\ matched = "untested"

InitFile ==
    /\ tree \in FileTrees
    /\ Fresh
    /\ line = <<>>
    /\ matched = "untested"

InitPattern ==
    /\ tree = Tree("missing", TRUE, <<>>)
    /\ Fresh
    /\ line \in LineInputs
    /\ matched = "untested"

\* ---------------------------------------------------------------- actions

Yields == Walk(tree)

InLoop == pc = "walk" /\ w <= Len(Yields)

AtFile == InLoop /\ k <= Len(Yields[w].files)

CurIdx == Yields[w].files[k]

CurFile == tree.files[CurIdx]

CurPath == PathJoin(Yields[w].root, CurFile.name)

\* if scan_file(filepath): has_error = True
Accumulate(flag, result) == IF result THEN TRUE ELSE flag

\* The start banner, then scan_directory is entered.
Start ==
    /\ pc = "start"
    /\ out' = Append(out, Printed("start", <<>>))
    /\ has_error' = FALSE
    /\ w' = 1
    /\ k' = 1
    /\ pc' = "walk"
    /\ UNCHANGED <<tree, handles, lines, commented_lines, exit, exc, opened, run,
                   prevOut, prevExit, line, matched>>

\* The files of one directory are done: os.walk yields the next directory.
NextDir ==
    /\ InLoop
    /\ k > Len(Yields[w].files)
    /\ w' = w + 1
    /\ k' = 1
    /\ UNCHANGED <<tree, pc, has_error, handles, lines, commented_lines, out, exit,
                   exc, opened, run, prevOut, prevExit, line, matched>>

\* A file name without a recognized suffix: on to the next file.
SkipFile ==
    /\ AtFile
    /\ ~Qualifies(CurFile.name)
    /\ k' = k + 1
    /\ UNCHANGED <<tree, pc, w, has_error, handles, lines, commented_lines, out,
                   exit, exc, opened, run, prevOut, prevExit, line, matched>>

\* scan_file is called and open() succeeds.
OpenFile ==
    /\ AtFile
    /\ Qualifies(CurFile.name)
    /\ CurFile.status # "noopen"
    /\ opened' = Append(opened, CurPath)
    /\ handles' = handles \cup {CurPath}
    /\ tree' = [tree EXCEPT !.files[CurIdx].content = FileAfterOpen(@)]
    /\ pc' = "opened"
    /\ UNCHANGED <<w, k, has_error, lines, commented_lines, out, exit, exc, run,
                   prevOut, prevExit, line, matched>>

\* scan_file is called and open() raises.
OpenFail ==
    /\ AtFile
    /\ Qualifies(CurFile.name)
    /\ CurFile.status = "noopen"
    /\ opened' = Append(opened, CurPath)
    /\ exc' = "OSError"
    /\ pc' = OnException.pc
    /\ exit' = OnException.exit
    /\ k' = k + OnException.skip
    /\ UNCHANGED <<tree, w, has_error, handles, lines, commented_lines, out, run,
                   prevOut, prevExit, line, matched>>

\* file.readlines() returns the lines.
ReadOk ==
    /\ pc = "opened"
    /\ CurFile.status # "undecodable"
    /\ lines' = ReadLines(CurFile.content)
    /\ pc' = "read"
    /\ UNCHANGED <<tree, w, k, has_error, handles, commented_lines, out, exit, exc,
                   opened, run, prevOut, prevExit, line, matched>>

\* file.readlines() raises: the `with` block is left by the exception.
ReadFail ==
    /\ pc = "opened"
    /\ CurFile.status = "undecodable"
    /\ handles' = WithExit(handles, CurPath, TRUE)
    /\ exc' = "UnicodeDecodeError"
    /\ pc' = OnException.pc
    /\ exit' = OnException.exit
    /\ k' = k + OnException.skip
    /\ UNCHANGED <<tree, w, has_error, lines, commented_lines, out, opened, run,
                   prevOut, prevExit, line, matched>>

\* The `with` block is left, the lines are tested and the matched ones
\* printed; scan_file returns and scan_directory takes its result.
ScanBody ==
    /\ pc = "read"
    /\ handles' = WithExit(handles, CurPath, FALSE)
    /\ commented_lines' = CommentedLines(lines)
    /\ out' = out \o ScanFilePrints(CurPath, commented_lines')
    /\ has_error' = Accumulate(has_error, ScanFileResult(commented_lines'))
    /\ k' = k + 1
    /\ pc' = "walk"
    /\ UNCHANGED <<tree, w, lines, exit, exc, opened, run, prevOut, prevExit, line,
                   matched>>

\* os.walk is exhausted: scan_directory returns has_error.
Return ==
    /\ pc = "walk"
    /\ w > Len(Yields)
    /\ pc' = "returned"
    /\ UNCHANGED <<tree, w, k, has_error, handles, lines, commented_lines, out, exit,
                   exc, opened, run, prevOut, prevExit, line, matched>>

\* The banner for errors_found, then sys.exit.
Finish ==
    /\ pc = "returned"
    /\ out' = Append(out, Printed(MainOutcome(has_error).banner, <<>>))
    /\ exit' = <<MainOutcome(has_error).status>>
    /\ pc' = "exited"
    /\ UNCHANGED <<tree, w, k, has_error, handles, lines, commented_lines, exc,
                   opened, run, prevOut, prevExit, line, matched>>

\* The script is run again: a new process, the same file system.
Rerun ==
    /\ pc \in { "exited", "aborted" }
    /\ run = 1
    /\ run' = 2
    /\ prevOut' = out
    /\ prevExit' = exit
    /\ pc' = "start"
    /\ w' = 1
    /\ k' = 1
    /\ has_error' = FALSE
    /\ handles' = {}
    /\ lines' = <<>>
    /\ commented_lines' = <<>>
    /\ out' = <<>>
    /\ exit' = <<>>
    /\ exc' = ""
    /\ opened' = <<>>
    /\ UNCHANGED <<tree, line, matched>>

\* commented_code_pattern.match(line) on one line.
TestLine ==
    /\ matched = "untested"
    /\ matched' = IF PatternMatches(line) THEN "match" ELSE "nomatch"
    /\ UNCHANGED <<tree, pc, w, k, has_error, handles, lines, commented_lines, out,
                   exit, exc, opened, run, prevOut, prevExit, line>>

Next ==
    \/ Start
    \/ NextDir
    \/ SkipFile
    \/ OpenFile
    \/ OpenFail
    \/ ReadOk
    \/ ReadFail
    \/ ScanBody
    \/ Return
    \/ Finish
    \/ Rerun

NextPattern == TestLine

\* Runs on a directory tree.
Spec == Init /\ [][Next]_vars

\* Runs on a tree of one file, over many file contents.
SpecFile == InitFile /\ [][Next]_vars

\* The pattern tried on one line.
SpecPattern == InitPattern /\ [][NextPattern]_vars

\* ------------------------------------------------------------------ claims

\* The pattern in words, with or without whitespace allowed between the
\* identifier and the opening parenthesis: from the start of
\* the line whitespace up to a '#' at h, then anything, then identifier
\* characters a..b, then whitespace up to a '(' at p, then anything, then a
\* ')' at q.
WordedMatch(l, gapAllowed) ==
    \E h \in 1..Len(l) :
        /\ l[h] = "#"
        /\ \A i \in 1..(h - 1) : IsSpace(l[i])
        /\ \E a \in (h + 1)..Len(l) : \E b \in a..Len(l) :
            /\ \A i \in a..b : l[i] \in IdentChars
            /\ \E p \in (b + 1)..Len(l) :
                /\ l[p] = "("
                /\ \A i \in (b + 1)..(p - 1) : IsSpace(l[i])
                /\ gapAllowed \/ p = b + 1
                /\ \E q \in (p + 1)..Len(l) : l[q] = ")"

\* C3 as stated: a line matches the pattern exactly when, after leading
\* whitespace, a '#' is followed by any characters, one or more identifier
\* characters, IMMEDIATELY a '(', any characters and a ')'.
C3_Original ==
    matched # "untested" => ((matched = "match") <=> WordedMatch(line, FALSE))

\* C3 amended: as C3, except that whitespace may stand between the identifier
\* characters and the '('.
C3_Amended ==
    matched # "untested" => ((matched = "match") <=> WordedMatch(line, TRUE))

\* A line matched although whitespace separates the identifier from the '('.
C3_Witness ==
    /\ matched = "match"
    /\ WordedMatch(line, TRUE)
    /\ ~WordedMatch(line, FALSE)

\* The file of the tree with this path.
FileOf(path) == CHOOSE f \in { tree.files[i] : i \in 1..Len(tree.files) } : FilePath(f) = path

LastPath == opened[Len(opened)]

\* scan_file has returned for the file opened last.
FileScanned == opened # <<>> /\ exc = "" /\ pc \in { "walk", "returned", "exited" }

\* What was printed for a file: its header and the matched lines after it.
ReportOf(path) ==
    LET hs == { i \in 1..Len(out) : out[i] = Printed("header", path) }
    IN  IF hs = {} THEN <<>>
        ELSE LET h == CHOOSE i \in hs : TRUE
                 e == CHOOSE j \in h..Len(out) :
                        /\ \A m \in (h + 1)..j : out[m].kind = "match"
                        /\ (j < Len(out) => out[j + 1].kind # "match")
             IN  SubSeq(out, h, e)

\* t is l without the whitespace around it.
IsTrimOf(t, l) ==
    \E i \in 1..(Len(l) + 1) : \E j \in 0..Len(l) :
        /\ t = SubSeq(l, i, j)
        /\ \A m \in 1..(i - 1) : IsSpace(l[m])
        /\ \A m \in (j + 1)..Len(l) : IsSpace(l[m])
        /\ t # <<>> => ~IsSpace(t[1]) /\ ~IsSpace(t[Len(t)])

\* ls cuts text into lines: each ends at the first newline after its start.
AreLinesOf(ls, text) ==
    /\ Concat(ls) = text
    /\ \A i \in 1..Len(ls) :
        /\ ls[i] # <<>>
        /\ \A j \in 1..(Len(ls[i]) - 1) : ls[i][j] # "\n"
        /\ i < Len(ls) => ls[i][Len(ls[i])] = "\n"

\* C7: the matched lines scan_file collects and prints are exactly the lines
\* of the file that match the pattern, each trimmed, in file order, none
\* dropped, duplicated or reordered; for a file without a matching line the
\* collection is empty and nothing is printed.
C7_MatchedLinesInOrder ==
    FileScanned =>
        LET M == { i \in 1..Len(lines) : WordedMatch(lines[i], TRUE) }
            nth(n) == CHOOSE i \in M : Cardinality({ j \in M : j <= i }) = n
            rep == ReportOf(LastPath)
        IN  /\ AreLinesOf(lines, UniversalNewlines(FileOf(LastPath).content))
            /\ Len(commented_lines) = Cardinality(M)
            /\ \A n \in 1..Len(commented_lines) :
                   IsTrimOf(commented_lines[n], lines[nth(n)])
            /\ M = {} => rep = <<>>
            /\ M # {} =>
                /\ Len(rep) = Len(commented_lines) + 1
                /\ \A n \in 1..Len(commented_lines) :
                       rep[n + 1] = Printed("match", commented_lines[n])

\* A file with two different matching lines, the first one trimmed.
C7_Witness ==
    /\ FileScanned
    /\ Len(lines) >= 2
    /\ Len(commented_lines) = 2
    /\ commented_lines[1] # commented_lines[2]
    /\ Len(commented_lines[1]) + 1 < Len(lines[1])

\* Some line of the file matches the pattern.
HasMatch(f) ==
    \E i \in 1..Len(ReadLines(f.content)) : PatternMatches(ReadLines(f.content)[i])

Banner(kind) == \E i \in 1..Len(out) : out[i].kind = kind

\* The path ends in .py, .js or .ts.
SuffixOK(path) ==
    /\ Len(path) >= 3
    /\ \/ SubSeq(path, Len(path) - 2, Len(path)) = <<".", "p", "y">>
       \/ SubSeq(path, Len(path) - 2, Len(path)) = <<".", "j", "s">>
       \/ SubSeq(path, Len(path) - 2, Len(path)) = <<".", "t", "s">>

\* A file that was scanned had a matching line.
ScannedMatch == \E i \in 1..Len(opened) : HasMatch(FileOf(opened[i]))

\* C1: a run that ends without an unhandled error exits with 0 iff no
\* scanned file had a matching line and with 1 iff one had; the failure banner
\* is printed exactly with exit 1, the success banner exactly with exit 0, and
\* a banner is printed only after scan_directory has returned, as the last
\* thing printed after the start banner.
C1_ExitStatus ==
    /\ pc = "exited" =>
        /\ exit \in { <<0>>, <<1>> }
        /\ exit = <<0>> <=> ~ScannedMatch
        /\ exit = <<1>> <=> ScannedMatch
        /\ Banner("fail") <=> exit = <<1>>
        /\ Banner("pass") <=> exit = <<0>>
    /\ \A i \in 1..Len(out) :
        /\ out[i].kind \in { "fail", "pass" } => pc = "exited" /\ i = Len(out)
        /\ out[i].kind = "start" <=> i = 1
    /\ pc \in { "walk", "opened", "read", "returned" } => exit = <<>>

\* A run over an offending and a clean file has ended with exit 1.
C1_Witness ==
    /\ pc = "exited"
    /\ exit = <<1>>
    /\ Banner("fail")
    /\ \E i \in 1..Len(opened) : ~HasMatch(FileOf(opened[i]))

\* C2 as stated: for every directory tree scan_directory returns true iff
\* some file under the root named *.py, *.js or *.ts has a matching line.
C2_Claim ==
    pc = "returned" =>
        (has_error <=>
            \E i \in 1..Len(tree.files) :
                /\ SuffixOK(tree.files[i].name)
                /\ tree.files[i].status = "ok"
                /\ HasMatch(tree.files[i]))

\* C4 as stated: with the root missing or no directory, or a directory
\* below it that cannot be listed, scan_directory returns no value, no banner
\* is printed and the process does not exit with status 0.
C4_Claim ==
    (tree.root # "dir" \/ ~tree.subListable) =>
        /\ pc \notin { "returned", "exited" }
        /\ ~Banner("pass")
        /\ ~Banner("fail")
        /\ exit # <<0>>

\* Nothing of a file without a recognized suffix is opened, held or reported.
C5_NeverOpened ==
    /\ \A i \in 1..Len(opened) : SuffixOK(opened[i])
    /\ \A h \in handles : SuffixOK(h)
    /\ \A i \in 1..Len(out) : out[i].kind = "header" => SuffixOK(out[i].text)

\* With such a file at hand the walk only moves on to the next file.
C5_StepOver ==
    (AtFile /\ ~SuffixOK(CurFile.name)) =>
        /\ k' = k + 1
        /\ UNCHANGED <<tree, pc, w, has_error, handles, lines, commented_lines,
                       out, exit, exc, opened>>

\* C5: a file whose name does not end in .py, .js or .ts is never opened or
\* scanned, whatever its content, and changes neither what is printed nor
\* the exit code.
C5_OtherFilesIgnored == []C5_NeverOpened /\ [][C5_StepOver]_vars

\* A run passed over a file d.txt with a matching line and ended with exit 0.
C5_Witness ==
    /\ pc = "exited"
    /\ exit = <<0>>
    /\ opened # <<>>
    /\ \E i \in 1..Len(tree.files) :
        /\ tree.files[i].dir = "top"
        /\ ~SuffixOK(tree.files[i].name)
        /\ tree.files[i].status = "ok"
        /\ HasMatch(tree.files[i])

\* The files of the tree that os.walk reaches.
Walked(f) == tree.root = "dir" /\ (f.dir = "sub" => tree.subListable)

RECURSIVE TraversalFrom(_)
TraversalFrom(i) ==
    IF i > Len(tree.files) THEN <<>>
    ELSE (IF Walked(tree.files[i]) /\ SuffixOK(tree.files[i].name)
          THEN <<FilePath(tree.files[i])>> ELSE <<>>) \o TraversalFrom(i + 1)

\* The paths of the files to scan, in the order of the traversal.
TraversalPaths == TraversalFrom(1)

\* An unhandled error ended the run at the file opened last: what was opened
\* is the traversal up to that file, and no banner was printed.
AbortedAtFile ==
    /\ pc = "aborted"
    /\ opened # <<>>
    /\ FileOf(LastPath).status # "ok"
    /\ Len(opened) <= Len(TraversalPaths)
    /\ opened = SubSeq(TraversalPaths, 1, Len(opened))
    /\ ~Banner("pass")
    /\ ~Banner("fail")

\* A file that cannot be read is the last one opened.
BadFileIsLast ==
    \A i \in 1..Len(opened) :
        FileOf(opened[i]).status # "ok" =>
            i = Len(opened) /\ pc \in { "opened", "aborted" }

\* C6 as stated: when opening or decoding a qualifying file fails the run
\* aborts at that file, no later file is opened, no banner is printed, and
\* the exit status is neither 0 nor 1.
C6_Original ==
    /\ BadFileIsLast
    /\ exc # "" => AbortedAtFile /\ exit # <<>> /\ exit # <<0>> /\ exit # <<1>>

\* C6 amended: as C6, except that the exit status is non-zero: it is the
\* interpreter's status for an uncaught exception, which is 1 as well.
C6_Amended ==
    /\ BadFileIsLast
    /\ exc # "" => AbortedAtFile /\ exit # <<>> /\ exit # <<0>>

\* The run aborted after an earlier file had a match.
C6_Witness ==
    /\ exc # ""
    /\ pc = "aborted"
    /\ has_error
    /\ Len(opened) = 2

\* C8: at most one file is open at any time, and it is closed before the next
\* file is opened and before the run ends, also when reading fails.
C8_OneHandle ==
    /\ Cardinality(handles) <= 1
    /\ pc \in { "opened", "read" } => handles = {LastPath}
    /\ pc \notin { "opened", "read" } => handles = {}

\* Reading the second file failed and no file is left open.
C8_Witness ==
    /\ exc = "UnicodeDecodeError"
    /\ Len(opened) = 2
    /\ handles = {}

\* The second run ended as the first one did.
C9_SameOutcome ==
    (run = 2 /\ pc \in { "exited", "aborted" }) => out = prevOut /\ exit = prevExit

C10_EveryFileOnce ==
    \A i \in 1..Len(tree.files) :
        SuffixOK(tree.files[i].name) =>
            Cardinality({ j \in 1..Len(opened) : opened[j] = FilePath(tree.files[i]) }) = 1

\* Each file scanned so far with a matching line has its header and lines in
\* the output, in the order the files were scanned.
C10_ReportsInOrder ==
    LET done == IF pc \in { "opened", "read" } THEN Len(opened) - 1 ELSE Len(opened)
        bad == { j \in 1..done : HasMatch(FileOf(opened[j])) }
        hdr(j) == CHOOSE m \in 1..Len(out) : out[m] = Printed("header", opened[j])
    IN  /\ \A j \in bad : ReportOf(opened[j]) # <<>>
        /\ \A j \in bad : \A j2 \in bad :
               j < j2 => hdr(j) + Len(ReportOf(opened[j])) <= hdr(j2)

\* C10 as stated: scan_directory does not stop at the first offending file:
\* in a run without an unhandled error every file under the root with a
\* recognized suffix is scanned exactly once, every offending file gets its
\* header and matched lines before any output for a later file, and has_error,
\* once true, stays true.
C10_Claim ==
    /\ [](pc \in { "returned", "exited" } => C10_EveryFileOnce)
    /\ [](exc = "" => C10_ReportsInOrder)
    /\ [][(has_error /\ run' = run) => has_error']_vars

====
